---- MODULE Spec2Model ----
\* Model of the CSV-to-database batch pipeline of
\* python/examples/advanced_data_processor.py: the batch reader, the
\* per-record validator/transformer, process_batch, store_batch and the two
\* orchestrators process_file_sequential and process_file_parallel.
EXTENDS Integers, Sequences, FiniteSets, TLC

\* ---------------------------------------------------------------- bounds
MaxRecords == 3
MaxBatchSize == 2
MaxWorkers == 2
MaxId == 2
MaxRuns == 2

\* ---------------------------------------------------------------- data
\* The contents a CSV cell of the value column can have, by what float()
\* does with it: "3.14" parses, "abc" raises ValueError, "huge" stands for
\* an integer too large for a float (float() raises OverflowError).
Values == {"3.14", "abc", "huge"}

Names == {" bob "}

RECURSIVE SeqsUpTo(_, _)
SeqsUpTo(S, n) ==
    IF n = 0 THEN {<< >>}
    ELSE LET shorter == SeqsUpTo(S, n - 1)
         IN  shorter \cup {Append(s, x) : s \in {t \in shorter : Len(t) = n - 1}, x \in S}

\* The id of row i of the file: the ids cycle through 1..MaxId, so that a
\* file longer than MaxId has rows with the same id, in one batch or in
\* two, depending on batch_size.
IdOfRow(i) == ((i - 1) % MaxId) + 1

\* The rows of a CSV file with columns id, name, value.
RowsOf(cells) ==
    [i \in DOMAIN cells |-> [id |-> IdOfRow(i), name |-> cells[i][1], value |-> cells[i][2]]]

Files == {RowsOf(cells) : cells \in SeqsUpTo(Names \X Values, MaxRecords)}

Modes == {"sequential", "parallel"}

Range(s) == {s[i] : i \in DOMAIN s}

\* ---------------------------------------------------------------- pure functions
\* float(x): the outcome of the conversion.
Float(v) ==
    CASE v = "3.14" -> "ok"
      [] v = "2.5"  -> "ok"
      [] v = "abc"  -> "ValueError"
      [] v = "huge" -> "OverflowError"
      [] OTHER      -> "TypeError"

ToFloat(v) == IF v = "3.14" THEN 314 ELSE IF v = "2.5" THEN 250 ELSE 0

\* str(name).strip().title()
StripTitle(n) == IF n = " bob " THEN "Bob" ELSE n

required_fields == {"id", "name", "value"}

\* validate_record: "true", "false", or "raise" when float() raises
\* something the except clause does not list.
validate_record(record) ==
    IF ~(required_fields \subseteq DOMAIN record) THEN "false"
    ELSE IF Float(record.value) \in {"ValueError", "TypeError"} THEN "false"
    ELSE IF Float(record.value) = "ok" THEN "true"
    ELSE "raise"

process_record(record) ==
    [id |-> record.id, name |-> StripTitle(record.name),
     value |-> ToFloat(record.value), processed |-> TRUE]

\* read_csv_batches: chunks of batch_size rows, in file order.
\* Variant: a chunk is cut off also when exactly batch_size rows are left.
RECURSIVE read_csv_batchesMut(_, _)
read_csv_batchesMut(rows, size) ==
    IF rows = << >> THEN << << >> >>
    ELSE IF Len(rows) < size THEN << rows >>
    ELSE << SubSeq(rows, 1, size) >> \o read_csv_batchesMut(SubSeq(rows, size + 1, Len(rows)), size)

RECURSIVE read_csv_batches(_, _)
read_csv_batches(rows, size) ==
    IF rows = << >> THEN << >>
    ELSE IF Len(rows) <= size THEN << rows >>
    ELSE << SubSeq(rows, 1, size) >> \o read_csv_batches(SubSeq(rows, size + 1, Len(rows)), size)

\* The DataFrame index of the first row of batch b (chunks keep the running
\* row number of the file, 0-based).
FirstIdx(b, size) == (b - 1) * size

\* The for loop of process_batch over the rows of one batch.
\* Variant: without the continue, a record that fails validation is
\* transformed and collected as well.
RECURSIVE RowLoopMut(_, _, _)
RowLoopMut(rows, idx, acc) ==
    IF rows = << >> THEN acc
    ELSE LET record == Head(rows)
             v == validate_record(record)
         IN  RowLoopMut(Tail(rows), idx + 1,
                 IF v = "false"
                 THEN [acc EXCEPT !.records_failed = @ + 1,
                                  !.errors = Append(@, <<"Validation failed for record", idx>>),
                                  !.valid_records = Append(@, process_record(record))]
                 ELSE IF v = "raise"
                 THEN [acc EXCEPT !.records_failed = @ + 1,
                                  !.errors = Append(@, <<"Error processing record", idx>>)]
                 ELSE [acc EXCEPT !.valid_records = Append(@, process_record(record)),
                                  !.records_processed = @ + 1])

RECURSIVE RowLoop(_, _, _)
RowLoop(rows, idx, acc) ==
    IF rows = << >> THEN acc
    ELSE LET record == Head(rows)
             v == validate_record(record)
         IN  RowLoop(Tail(rows), idx + 1,
                 IF v = "false"
                 THEN [acc EXCEPT !.records_failed = @ + 1,
                                  !.errors = Append(@, <<"Validation failed for record", idx>>)]
                 ELSE IF v = "raise"
                 THEN [acc EXCEPT !.records_failed = @ + 1,
                                  !.errors = Append(@, <<"Error processing record", idx>>)]
                 ELSE [acc EXCEPT !.valid_records = Append(@, process_record(record)),
                                  !.records_processed = @ + 1])

EmptyLoop ==
    [kind |-> "loop", records_processed |-> 0, records_failed |-> 0,
     errors |-> << >>, valid_records |-> << >>]

LoopOf(rows, idx) == RowLoop(rows, idx, EmptyLoop)

\* The except DatabaseError branch of process_batch.
\* Variant: the valid records are added to failed but not taken off processed.
StoreFailedMut(loop) ==
    [loop EXCEPT !.errors = Append(@, <<"Database storage failed">>),
                 !.records_failed = @ + Len(loop.valid_records)]

StoreFailed(loop) ==
    [loop EXCEPT !.errors = Append(@, <<"Database storage failed">>),
                 !.records_failed = @ + Len(loop.valid_records),
                 !.records_processed = @ - Len(loop.valid_records)]

\* The ProcessingResult process_batch returns.
BatchResult(loop) ==
    [kind |-> "result", success |-> (loop.records_failed = 0),
     records_processed |-> loop.records_processed,
     records_failed |-> loop.records_failed, errors |-> loop.errors]

RaisedResult == [kind |-> "exception"]

NoResult == [kind |-> "none"]

\* store_batch on a working store: one upsert per row, keyed by id.
\* Variant: the conflicting row is deleted and the new one never inserted.
RECURSIVE UpsertMut(_, _)
UpsertMut(rows, batch) ==
    IF batch = << >> THEN rows
    ELSE UpsertMut({r \in rows : r.id # Head(batch).id}, Tail(batch))

RECURSIVE Upsert(_, _)
Upsert(rows, batch) ==
    IF batch = << >> THEN rows
    ELSE Upsert({r \in rows : r.id # Head(batch).id} \cup {Head(batch)}, Tail(batch))

\* ---------------------------------------------------------------- state
VARIABLES
    file,             \* rows of the input CSV
    batch_size,       \* self.batch_size
    max_workers,      \* self.max_workers
    mode,             \* which process_file_* method this run calls
    pc,               \* position of the orchestrator
    batches,          \* the list read from read_csv_batches
    fut,              \* parallel: per batch, the state of its future
    next_batch,       \* sequential: index of the batch the for loop is at
    result,           \* sequential: what process_batch last returned
    total_processed,
    total_failed,
    all_errors,
    yielded,          \* batch indices in the order their results were merged
    summary,          \* the ProcessingResult returned, once returned
    store,            \* rows of table processed_data
    outcome,          \* per batch, what the environment did to it
    run,              \* number of the current run over the same file
    prev,             \* what the previous run over the same file returned
    sink_calls,       \* per batch, the arguments store_batch was called with
    entry,            \* who drives the processor: main() or a direct caller
    env,              \* argv, the file system and the environment variables
    engine,           \* self.engine
    exit_code,        \* what main() returned, -1 before it returns
    arg,              \* the argument a function is applied to on its own
    ret               \* what that function returned

vars == <<file, batch_size, max_workers, mode, pc, batches, fut, next_batch, result,
          total_processed, total_failed, all_errors, yielded, summary, store,
          outcome, run, prev, sink_calls, entry, env, engine, exit_code, arg, ret>>

\* What no step of process_file_sequential or process_file_parallel changes.
config == <<file, batch_size, max_workers, entry, env, engine, exit_code, arg, ret>>

totals == <<total_processed, total_failed, all_errors>>

NBatches == Len(batches)

NoSummary == [status |-> "none"]

\* sys.argv[1] is given, the path exists, DATABASE_URL is set, and the
\* file has no row the parser rejects (bad_row = 0).
GoodEnv == [argv |-> TRUE, exists |-> TRUE, db_url |-> "postgresql://db", bad_row |-> 0]

Init ==
    /\ file \in Files
    /\ batch_size \in 1..MaxBatchSize
    /\ max_workers \in 1..MaxWorkers
    /\ mode \in Modes
    /\ pc = "start"
    /\ batches = << >>
    /\ fut = << >>
    /\ next_batch = 1
    /\ result = NoResult
    /\ total_processed = 0
    /\ total_failed = 0
    /\ all_errors = << >>
    /\ yielded = << >>
    /\ summary = NoSummary
    /\ store = {}
    /\ outcome = << >>
    /\ run = 1
    /\ prev = NoSummary
    /\ sink_calls = << >>
    /\ entry = "api"
    /\ env = GoodEnv
    /\ engine = "created"
    /\ exit_code = -1
    /\ arg = NoResult
    /\ ret = NoResult

\* The choices the environment has for batch b: every choice on the first
\* run, the recorded one on a re-run over the same file.
RaiseChoices(b) ==
    IF outcome[b].raised = "unset" THEN {TRUE, FALSE} ELSE {outcome[b].raised = "yes"}

StoreChoices(b) ==
    IF outcome[b].store = "unset" THEN {TRUE, FALSE} ELSE {outcome[b].store = "ok"}

YesNo(flag) == IF flag THEN "yes" ELSE "no"

OkFail(flag) == IF flag THEN "ok" ELSE "fail"

\* read_csv_batches raises FileProcessingError: the path does not exist,
\* or pandas rejects a row of the file.
\* Variant: a row the parser rejects is not reported.
ReadErrorMut == ~env.exists

ReadError == ~env.exists \/ env.bad_row > 0

\* batches = list(self.read_csv_batches(file_path))
ReadBatches ==
    /\ pc = "start"
    /\ ~ReadError
    /\ batches' = read_csv_batches(file, batch_size)
    /\ outcome' = IF run = 1
                  THEN [b \in 1..Len(batches') |-> [raised |-> "unset", store |-> "unset"]]
                  ELSE outcome
    /\ sink_calls' = [b \in 1..Len(batches') |-> << >>]
    /\ pc' = IF mode = "sequential" THEN "loop" ELSE "submit"
    /\ UNCHANGED <<config, mode, fut, next_batch, result, totals, yielded, summary, store, run, prev>>

\* total_* += result.*; all_errors.extend(result.errors)
\* Variant: the processed count is overwritten instead of added to.
MergeMut(t, res) ==
    [processed |-> res.records_processed,
     failed |-> t.failed + res.records_failed,
     errors |-> t.errors \o res.errors]

Merge(t, res) ==
    [processed |-> t.processed + res.records_processed,
     failed |-> t.failed + res.records_failed,
     errors |-> t.errors \o res.errors]

\* The same three statements in the loop of process_file_sequential.
\* Variant: the batch's messages are put in front of the list.
SeqMergeMut(t, res) ==
    [processed |-> t.processed + res.records_processed,
     failed |-> t.failed + res.records_failed,
     errors |-> res.errors \o t.errors]

SeqMerge(t, res) ==
    [processed |-> t.processed + res.records_processed,
     failed |-> t.failed + res.records_failed,
     errors |-> t.errors \o res.errors]

Totals == [processed |-> total_processed, failed |-> total_failed, errors |-> all_errors]

SetTotals(t) ==
    /\ total_processed' = t.processed
    /\ total_failed' = t.failed
    /\ all_errors' = t.errors

\* The ProcessingResult both orchestrators return.
Returned ==
    [status |-> "returned", success |-> (total_failed = 0),
     records_processed |-> total_processed, records_failed |-> total_failed,
     errors |-> all_errors]

\* ---------------------------------------------------------------- sequential
\* One iteration of the for loop of process_file_sequential: process_batch
\* runs to its end in the calling thread; an exception it raises leaves
\* the method.
SeqBatch ==
    /\ pc = "loop"
    /\ next_batch <= NBatches
    /\ LET b == next_batch
           loop == LoopOf(batches[b], FirstIdx(b, batch_size))
       IN  \E raised \in RaiseChoices(b) :
             IF raised
             THEN /\ pc' = "raised"
                  /\ outcome' = [outcome EXCEPT ![b].raised = "yes"]
                  /\ UNCHANGED <<totals, yielded, store, sink_calls, next_batch, result>>
             ELSE \E ok \in (IF loop.valid_records = << >> THEN {TRUE} ELSE StoreChoices(b)) :
                  LET res == BatchResult(IF ok THEN loop ELSE StoreFailed(loop))
                  IN  /\ store' = IF ok THEN Upsert(store, loop.valid_records) ELSE store
                      /\ sink_calls' = IF loop.valid_records = << >> THEN sink_calls
                                       ELSE [sink_calls EXCEPT ![b] = Append(@, loop.valid_records)]
                      /\ result' = res
                      /\ SetTotals(SeqMerge(Totals, res))
                      /\ outcome' = [outcome EXCEPT
                                        ![b].raised = "no",
                                        ![b].store = IF loop.valid_records = << >>
                                                     THEN @ ELSE OkFail(ok)]
                      /\ yielded' = Append(yielded, b)
                      /\ next_batch' = b + 1
                      /\ UNCHANGED pc
    /\ UNCHANGED <<config, mode, batches, fut, summary, run, prev>>

SeqReturn ==
    /\ pc = "loop"
    /\ next_batch > NBatches
    /\ pc' = "done"
    /\ summary' = Returned
    /\ UNCHANGED <<config, mode, batches, fut, next_batch, result, totals, yielded, store, sink_calls,
                   outcome, run, prev>>

\* ---------------------------------------------------------------- parallel
\* future_to_batch = {executor.submit(self.process_batch, batch): i ...}
SubmitAll ==
    /\ pc = "submit"
    /\ fut' = [b \in 1..NBatches |-> [st |-> "queued", res |-> NoResult]]
    /\ pc' = "collect"
    /\ UNCHANGED <<config, mode, batches, next_batch, result, totals, yielded, summary, store, sink_calls,
                   outcome, run, prev>>

Busy == {b \in DOMAIN fut : fut[b].st = "running"}

\* ThreadPoolExecutor(max_workers=self.max_workers): a pool thread is idle.
\* Variant: the pool has no limit on its threads.
IdleWorkerMut == TRUE

IdleWorker == Cardinality(Busy) < max_workers

\* A pool thread takes the oldest work item off the executor's queue.
WorkerStart(b) ==
    /\ pc = "collect"
    /\ fut[b].st = "queued"
    /\ \A c \in 1..(b - 1) : fut[c].st # "queued"
    /\ IdleWorker
    /\ fut' = [fut EXCEPT ![b].st = "running"]
    /\ UNCHANGED <<config, mode, pc, batches, next_batch, result, totals, yielded, summary,
                   store, sink_calls, outcome, run, prev>>

\* The future of a work item whose callable has returned res or raised:
\* the pool thread sets the result or the exception on the future.
\* Variant: a callable that raises leaves its future unresolved.
ResolvedMut(b, res) ==
    IF res.kind = "exception" THEN fut[b] ELSE [st |-> "finished", res |-> res]

Resolved(b, res) == [st |-> "finished", res |-> res]

\* process_batch in a pool thread. The loop over the rows touches only
\* objects local to the call, so it is taken together with the call of
\* store_batch that follows it.
WorkerRun(b) ==
    /\ pc = "collect"
    /\ fut[b].st = "running"
    /\ LET loop == LoopOf(batches[b], FirstIdx(b, batch_size))
       IN  \E raised \in RaiseChoices(b) :
             IF raised
             THEN /\ outcome' = [outcome EXCEPT ![b].raised = "yes"]
                  /\ fut' = [fut EXCEPT ![b] = Resolved(b, RaisedResult)]
                  /\ UNCHANGED <<store, sink_calls>>
             ELSE \E ok \in (IF loop.valid_records = << >> THEN {TRUE} ELSE StoreChoices(b)) :
                  /\ store' = IF ok THEN Upsert(store, loop.valid_records) ELSE store
                  /\ sink_calls' = IF loop.valid_records = << >> THEN sink_calls
                                   ELSE [sink_calls EXCEPT ![b] = Append(@, loop.valid_records)]
                  /\ outcome' = [outcome EXCEPT
                                    ![b].raised = "no",
                                    ![b].store = IF loop.valid_records = << >>
                                                 THEN @ ELSE OkFail(ok)]
                  /\ fut' = [fut EXCEPT ![b] =
                               Resolved(b, BatchResult(IF ok THEN loop ELSE StoreFailed(loop)))]
    /\ UNCHANGED <<config, mode, pc, batches, next_batch, result, totals, yielded, summary,
                   run, prev>>

\* as_completed(future_to_batch): the futures it can yield next.
\* Variant: a finished future is yielded again.
AsCompletedMut == {b \in DOMAIN fut : fut[b].st = "finished"}

AsCompleted == {b \in DOMAIN fut : fut[b].st = "finished" /\ b \notin Range(yielded)}

\* One iteration of the for loop over as_completed.
Collect(b) ==
    /\ pc = "collect"
    /\ b \in AsCompleted
    /\ IF fut[b].res.kind = "exception"
       THEN /\ all_errors' = Append(all_errors, <<"Batch error", b - 1>>)
            /\ UNCHANGED <<total_processed, total_failed>>
       ELSE SetTotals(Merge(Totals, fut[b].res))
    /\ yielded' = Append(yielded, b)
    /\ UNCHANGED <<config, mode, pc, batches, fut, next_batch, result, summary, store, sink_calls,
                   outcome, run, prev>>

ParReturn ==
    /\ pc = "collect"
    /\ Len(yielded) = NBatches
    /\ pc' = "done"
    /\ summary' = Returned
    /\ UNCHANGED <<config, mode, batches, fut, next_batch, result, totals, yielded, store, sink_calls,
                   outcome, run, prev>>

\* ---------------------------------------------------------------- re-run
\* The pipeline is invoked again on the same file, against the same store.
Rerun ==
    /\ pc \in {"done", "raised"}
    /\ run < MaxRuns
    /\ run' = run + 1
    /\ prev' = IF pc = "done"
               THEN [status |-> "returned", mode |-> mode, success |-> summary.success,
                     records_processed |-> summary.records_processed,
                     records_failed |-> summary.records_failed, store |-> store]
               ELSE [status |-> "raised", mode |-> mode, store |-> store]
    /\ mode' \in Modes
    /\ pc' = "start"
    /\ batches' = << >>
    /\ fut' = << >>
    /\ next_batch' = 1
    /\ result' = NoResult
    /\ total_processed' = 0
    /\ total_failed' = 0
    /\ all_errors' = << >>
    /\ yielded' = << >>
    /\ summary' = NoSummary
    /\ UNCHANGED <<config, store, sink_calls, outcome>>

Next ==
    \/ ReadBatches
    \/ SeqBatch
    \/ SeqReturn
    \/ SubmitAll
    \/ \E b \in DOMAIN fut : WorkerStart(b)
    \/ \E b \in DOMAIN fut : WorkerRun(b)
    \/ \E b \in DOMAIN fut : Collect(b)
    \/ ParReturn

\* One invocation of the pipeline.
Spec == Init /\ [][Next]_vars

\* ---------------------------------------------------------------- fair pool
\* process_file_parallel alone, with the scheduling the thread pool gives:
\* the calling thread keeps running, and a pool thread that can take or run
\* a work item does so.
FairValues == {"3.14"}

FairFiles == {RowsOf(cells) : cells \in SeqsUpTo(Names \X FairValues, MaxRecords)}

InitFair ==
    /\ Init
    /\ file \in FairFiles
    /\ mode = "parallel"

NextFair ==
    \/ ReadBatches
    \/ SubmitAll
    \/ \E b \in DOMAIN fut : WorkerStart(b)
    \/ \E b \in DOMAIN fut : WorkerRun(b)
    \/ \E b \in DOMAIN fut : Collect(b)
    \/ ParReturn

Fairness ==
    /\ WF_vars(ReadBatches)
    /\ WF_vars(SubmitAll)
    /\ WF_vars(ParReturn)
    /\ \A b \in 1..MaxRecords :
          /\ WF_vars(b \in DOMAIN fut /\ WorkerStart(b))
          /\ WF_vars(b \in DOMAIN fut /\ WorkerRun(b))
          /\ WF_vars(b \in DOMAIN fut /\ Collect(b))

SpecFair == InitFair /\ [][NextFair]_vars /\ Fairness

NextRerun ==
    \/ Next
    \/ Rerun

\* Successive invocations over the same file and store.
SpecRerun == Init /\ [][NextRerun]_vars

\* ---------------------------------------------------------------- setup
\* batch_size and max_workers as main() passes them.
MainBatchSize == 1000

MainMaxWorkers == 4

\* os.getenv("DATABASE_URL"): not set, empty, a URL, or text that
\* create_engine does not accept as a URL.
DbUrls == {"unset", "", "postgresql://db", "garbage"}

Envs == [argv : BOOLEAN, exists : BOOLEAN, db_url : DbUrls, bad_row : 0..MaxRecords]

\* The three checks at the top of DataProcessor.__init__.
\* Variant: max_workers is not checked.
ValidConfigMut ==
    /\ env.db_url \notin {"unset", ""}
    /\ batch_size > 0

ValidConfig ==
    /\ env.db_url \notin {"unset", ""}
    /\ batch_size > 0
    /\ max_workers > 0

\* return 0 if result.success else 1
\* Variant: the exit code does not look at the result.
ExitCodeMut(success) == 0

ExitCode(success) == IF success THEN 0 ELSE 1

\* main() up to the construction of the processor: the three early returns.
MainChecks ==
    /\ pc = "main"
    /\ IF ~env.argv \/ ~env.exists \/ env.db_url \in {"unset", ""}
       THEN /\ exit_code' = 1
            /\ pc' = "exited"
       ELSE /\ pc' = "new"
            /\ UNCHANGED exit_code
    /\ UNCHANGED <<file, batch_size, max_workers, entry, env, engine, arg, ret, mode, batches,
                   fut, next_batch, result, totals, yielded, summary, store, sink_calls,
                   outcome, run, prev>>

\* DataProcessor.__init__; in main() the except clause turns an exception
\* into return 1.
Construct ==
    /\ pc = "new"
    /\ IF ValidConfig /\ env.db_url # "garbage"
       THEN /\ engine' = "created"
            /\ pc' = "start"
            /\ UNCHANGED exit_code
       ELSE /\ pc' = IF entry = "main" THEN "exited" ELSE "config_error"
            /\ exit_code' = IF entry = "main" THEN 1 ELSE exit_code
            /\ UNCHANGED engine
    /\ UNCHANGED <<file, batch_size, max_workers, entry, env, arg, ret, mode, batches,
                   fut, next_batch, result, totals, yielded, summary, store, sink_calls,
                   outcome, run, prev>>

\* list(self.read_csv_batches(file_path)) raises: the exception leaves
\* process_file_sequential or process_file_parallel; main() returns 1.
ReadFails ==
    /\ pc = "start"
    /\ ReadError
    /\ pc' = IF entry = "main" THEN "exited" ELSE "read_error"
    /\ exit_code' = IF entry = "main" THEN 1 ELSE exit_code
    /\ UNCHANGED <<file, batch_size, max_workers, entry, env, engine, arg, ret, mode, batches,
                   fut, next_batch, result, totals, yielded, summary, store, sink_calls,
                   outcome, run, prev>>

\* main() after process_file_parallel returned: log, close, return.
MainReturn ==
    /\ pc = "done"
    /\ entry = "main"
    /\ engine' = "disposed"
    /\ exit_code' = ExitCode(summary.success)
    /\ pc' = "exited"
    /\ UNCHANGED <<file, batch_size, max_workers, entry, env, arg, ret, mode, batches,
                   fut, next_batch, result, totals, yielded, summary, store, sink_calls,
                   outcome, run, prev>>

InitSetup ==
    /\ entry \in {"main", "api"}
    /\ file \in Files
    /\ env \in {e \in Envs : e.bad_row <= Len(file) /\ (entry = "api" => e.argv)}
    /\ batch_size \in (IF entry = "main" THEN {MainBatchSize} ELSE (-1)..MaxBatchSize)
    /\ max_workers \in (IF entry = "main" THEN {MainMaxWorkers} ELSE (-1)..MaxWorkers)
    /\ mode \in (IF entry = "main" THEN {"parallel"} ELSE Modes)
    /\ pc = IF entry = "main" THEN "main" ELSE "new"
    /\ batches = << >>
    /\ fut = << >>
    /\ next_batch = 1
    /\ result = NoResult
    /\ total_processed = 0
    /\ total_failed = 0
    /\ all_errors = << >>
    /\ yielded = << >>
    /\ summary = NoSummary
    /\ store = {}
    /\ outcome = << >>
    /\ run = 1
    /\ prev = NoSummary
    /\ sink_calls = << >>
    /\ engine = "none"
    /\ exit_code = -1
    /\ arg = NoResult
    /\ ret = NoResult

NextSetup ==
    \/ MainChecks
    \/ Construct
    \/ ReadFails
    \/ MainReturn
    \/ Next

\* One invocation from its start: main(), or a caller that constructs a
\* DataProcessor and calls one of the process_file methods.
SpecSetup == InitSetup /\ [][NextSetup]_vars

\* ---------------------------------------------------------------- functions on their own
\* The values a caller can put under the key 'value': the strings "3.14",
\* "2.5" and "abc", None, and the integer 10**400.
PureValues == {"3.14", "2.5", "abc", "None", "huge"}

FieldSets == SUBSET (required_fields \cup {"extra"})

\* A dict with the given keys.
DictOf(fields, v) == [f \in fields |-> IF f = "value" THEN v ELSE "x"]

PureRecords == {DictOf(fields, v) : fields \in FieldSets, v \in PureValues}

\* A file of n rows that differ in their id.
NumberedRows(n) == [i \in 1..n |-> [id |-> i, name |-> " bob ", value |-> "3.14"]]

PureArgs ==
    {[fn |-> "validate_record", record |-> r] : r \in PureRecords}
        \cup {[fn |-> "read_csv_batches", rows |-> NumberedRows(n), size |-> b] :
                  n \in 1..MaxRecords, b \in 1..MaxBatchSize}

InitPure ==
    /\ arg \in PureArgs
    /\ ret = NoResult
    /\ pc = "call"
    /\ file = << >>
    /\ batch_size = 1
    /\ max_workers = 1
    /\ mode = "sequential"
    /\ batches = << >>
    /\ fut = << >>
    /\ next_batch = 1
    /\ result = NoResult
    /\ total_processed = 0
    /\ total_failed = 0
    /\ all_errors = << >>
    /\ yielded = << >>
    /\ summary = NoSummary
    /\ store = {}
    /\ outcome = << >>
    /\ run = 1
    /\ prev = NoSummary
    /\ sink_calls = << >>
    /\ entry = "api"
    /\ env = GoodEnv
    /\ engine = "created"
    /\ exit_code = -1

\* processor.validate_record(record)
CallValidate ==
    /\ pc = "call"
    /\ arg.fn = "validate_record"
    /\ ret' = [kind |-> "validated", value |-> validate_record(arg.record)]
    /\ pc' = "called"
    /\ UNCHANGED <<file, batch_size, max_workers, entry, env, engine, exit_code, arg, mode,
                   batches, fut, next_batch, result, totals, yielded, summary, store,
                   sink_calls, outcome, run, prev>>

\* list(processor.read_csv_batches(path)) with self.batch_size = arg.size
CallRead ==
    /\ pc = "call"
    /\ arg.fn = "read_csv_batches"
    /\ ret' = [kind |-> "batches", value |-> read_csv_batches(arg.rows, arg.size)]
    /\ pc' = "called"
    /\ UNCHANGED <<file, batch_size, max_workers, entry, env, engine, exit_code, arg, mode,
                   batches, fut, next_batch, result, totals, yielded, summary, store,
                   sink_calls, outcome, run, prev>>

NextPure ==
    \/ CallValidate
    \/ CallRead

\* validate_record and read_csv_batches applied to one argument.
SpecPure == InitPure /\ [][NextPure]_vars

\* Files whose rows can carry two different numbers, so that two rows with
\* the same id need not be the same row.
IdemValues == {"3.14", "2.5", "abc"}

IdemFiles == {RowsOf(cells) : cells \in SeqsUpTo(Names \X IdemValues, MaxRecords)}

InitIdem ==
    /\ file \in IdemFiles
    /\ batch_size \in 1..MaxBatchSize
    /\ max_workers \in 1..MaxWorkers
    /\ mode \in Modes
    /\ pc = "start"
    /\ batches = << >>
    /\ fut = << >>
    /\ next_batch = 1
    /\ result = NoResult
    /\ total_processed = 0
    /\ total_failed = 0
    /\ all_errors = << >>
    /\ yielded = << >>
    /\ summary = NoSummary
    /\ store = {}
    /\ outcome = << >>
    /\ run = 1
    /\ prev = NoSummary
    /\ sink_calls = << >>
    /\ entry = "api"
    /\ env = GoodEnv
    /\ engine = "created"
    /\ exit_code = -1
    /\ arg = NoResult
    /\ ret = NoResult

\* Successive invocations over a file of IdemFiles.
SpecIdem == InitIdem /\ [][NextRerun]_vars

TypeOK ==
    /\ total_processed \in Nat
    /\ total_failed \in Nat
    /\ pc \in {"start", "loop", "submit", "collect", "done", "raised",
              "main", "new", "config_error", "read_error", "exited", "call", "called"}

\* ---------------------------------------------------------------- properties
\* What the input and the recorded outcomes say about a batch, stated
\* without the loop of process_batch.
RECURSIVE SumLen(_)
SumLen(bs) == IF bs = << >> THEN 0 ELSE Len(Head(bs)) + SumLen(Tail(bs))

ValidPositions(b) == {i \in DOMAIN batches[b] : validate_record(batches[b][i]) = "true"}

ValidCount(b) == Cardinality(ValidPositions(b))

InvalidCount(b) == Len(batches[b]) - ValidCount(b)

Raised(b) == outcome[b].raised = "yes"

StoreFail(b) == outcome[b].store = "fail"

ExpectedProcessed(b) == IF Raised(b) \/ StoreFail(b) THEN 0 ELSE ValidCount(b)

ExpectedFailed(b) ==
    IF Raised(b) THEN 0 ELSE IF StoreFail(b) THEN Len(batches[b]) ELSE InvalidCount(b)

RECURSIVE SumOver(_, _)
SumOver(F(_), S) ==
    IF S = {} THEN 0 ELSE LET x == CHOOSE y \in S : TRUE IN F(x) + SumOver(F, S \ {x})

RecordMessage(b, i) ==
    << IF validate_record(batches[b][i]) = "false"
       THEN "Validation failed for record" ELSE "Error processing record",
       FirstIdx(b, batch_size) + i - 1 >>

\* The messages of the records of batch b that are not valid, in record order.
RECURSIVE RecordMessages(_, _)
RecordMessages(b, i) ==
    IF i > Len(batches[b]) THEN << >>
    ELSE (IF i \in ValidPositions(b) THEN << >> ELSE << RecordMessage(b, i) >>)
         \o RecordMessages(b, i + 1)

StorageMessage == <<"Database storage failed">>

BatchMessage(b) == <<"Batch error", b - 1>>

ExpectedErrors(b) ==
    IF Raised(b) THEN << BatchMessage(b) >>
    ELSE RecordMessages(b, 1) \o (IF StoreFail(b) THEN << StorageMessage >> ELSE << >>)

RECURSIVE ConcatExpected(_)
ConcatExpected(n) == IF n = 0 THEN << >> ELSE ConcatExpected(n - 1) \o ExpectedErrors(n)

Count(m, s) == Cardinality({i \in DOMAIN s : s[i] = m})

SameBag(s, t) ==
    /\ Len(s) = Len(t)
    /\ \A m \in Range(s) \cup Range(t) : Count(m, s) = Count(m, t)

InReaderOrder(s) == \A i \in DOMAIN s : s[i] = i

\* C1: every returned summary has records_processed + records_failed equal
\* to the number of records in all batches read, whatever failed.
C1_CountsCoverInput ==
    summary.status = "returned"
        => summary.records_processed + summary.records_failed = SumLen(batches)

\* C2: in process_file_parallel, merging a batch whose execution raised adds
\* every record of the batch to the failed count and appends exactly one
\* message.
C2_RaisedBatchCountedFailed ==
    [][\A b \in DOMAIN fut :
          (/\ mode = "parallel"
           /\ b \notin Range(yielded)
           /\ b \in Range(yielded')
           /\ fut[b].res.kind = "exception")
          => (/\ total_failed' = total_failed + Len(batches[b])
              /\ total_processed' = total_processed
              /\ Len(all_errors') = Len(all_errors) + 1)]_vars

\* C3: in both modes an error raised while processing one batch never
\* leaves the orchestrator.
C3_NoErrorPastOrchestrator == pc # "raised"

\* C4: the returned success flag is true exactly when no batch failed, by
\* an invalid record, by a storage failure or by an exception.
BatchFailed(b) == Raised(b) \/ StoreFail(b) \/ InvalidCount(b) > 0

C4_SuccessIffNoBatchFailed ==
    summary.status = "returned"
        => (summary.success <=> \A b \in 1..NBatches : ~BatchFailed(b))

\* C5: in process_file_parallel no batch is merged twice, the totals are the
\* sums of the results merged so far, and no batch is missing when the
\* summary is returned.
MergedProcessed(b) ==
    IF fut[b].res.kind = "result" THEN fut[b].res.records_processed ELSE 0

MergedFailed(b) ==
    IF fut[b].res.kind = "result" THEN fut[b].res.records_failed ELSE 0

C5_EachBatchMergedOnce ==
    mode = "parallel"
        => /\ \A i, j \in DOMAIN yielded : yielded[i] = yielded[j] => i = j
           /\ \A i \in DOMAIN yielded : fut[yielded[i]].st = "finished"
           /\ total_processed = SumOver(MergedProcessed, Range(yielded))
           /\ total_failed = SumOver(MergedFailed, Range(yielded))
           /\ summary.status = "returned" => Range(yielded) = 1..NBatches

C5_Witness ==
    /\ mode = "parallel"
    /\ summary.status = "returned"
    /\ NBatches >= 2
    /\ ~InReaderOrder(yielded)
    /\ total_processed > 0

\* C6: a result of process_batch whose store_batch failed has
\* records_processed = 0, records_failed = the size of the batch, and one
\* storage message, placed after the messages of the records.
StoreFailedResult(res, b) ==
    /\ res.kind = "result"
    /\ res.records_processed = 0
    /\ res.records_failed = Len(batches[b])
    /\ res.errors = RecordMessages(b, 1) \o << StorageMessage >>
    /\ ~res.success

C6_StoreFailureReclassifies ==
    /\ \A b \in DOMAIN fut :
          (fut[b].st = "finished" /\ StoreFail(b)) => StoreFailedResult(fut[b].res, b)
    /\ (mode = "sequential" /\ next_batch > 1 /\ pc # "start" /\ StoreFail(next_batch - 1))
          => StoreFailedResult(result, next_batch - 1)

C6_Witness ==
    \E b \in DOMAIN fut :
        /\ fut[b].st = "finished"
        /\ StoreFail(b)
        /\ ValidCount(b) > 0
        /\ InvalidCount(b) > 0

\* C7: when store_batch fails for exactly one batch and every other batch
\* completes, the store has a row for every valid record of the other
\* batches, and the summary counts as failed that whole batch plus the
\* invalid records of the others, and as processed the valid records of
\* the others.
OneStoreFailure(f) ==
    /\ StoreFail(f)
    /\ \A b \in 1..NBatches : b # f => (~StoreFail(b) /\ ~Raised(b))

OthersValid(f) == SumOver(ValidCount, (1..NBatches) \ {f})

OthersInvalid(f) == SumOver(InvalidCount, (1..NBatches) \ {f})

C7_OtherBatchesCommitted ==
    \A f \in 1..NBatches :
        (summary.status = "returned" /\ OneStoreFailure(f))
            => /\ \A b \in (1..NBatches) \ {f} : \A i \in ValidPositions(b) :
                      \E row \in store : row.id = batches[b][i].id /\ row.processed
               /\ summary.records_failed = Len(batches[f]) + OthersInvalid(f)
               /\ summary.records_processed = OthersValid(f)

C7_Witness ==
    \E f \in 1..NBatches :
        /\ summary.status = "returned"
        /\ OneStoreFailure(f)
        /\ OthersValid(f) > 0
        /\ OthersInvalid(f) > 0

\* C8: in process_file_parallel the returned counts depend only on the input
\* and the per-batch outcomes, not on the order of completion; the error
\* list is the same up to order.
C8_CountsOrderIndependent ==
    (mode = "parallel" /\ summary.status = "returned")
        => /\ summary.records_processed = SumOver(ExpectedProcessed, 1..NBatches)
           /\ summary.records_failed = SumOver(ExpectedFailed, 1..NBatches)
           /\ SameBag(summary.errors, ConcatExpected(NBatches))

C8_Witness ==
    /\ mode = "parallel"
    /\ summary.status = "returned"
    /\ ~InReaderOrder(yielded)
    /\ summary.records_processed > 0
    /\ summary.records_failed > 0
    /\ summary.errors # ConcatExpected(NBatches)

\* C9: process_file_parallel with max_workers = 1 returns the same
\* records_processed, records_failed and success as process_file_sequential
\* did on the same input with the same per-batch outcomes.
C9_OneWorkerMatchesSequential ==
    (/\ run = 2
     /\ prev.status # "none"
     /\ prev.mode = "sequential"
     /\ mode = "parallel"
     /\ max_workers = 1
     /\ summary.status = "returned")
        => /\ prev.status = "returned"
           /\ prev.records_processed = summary.records_processed
           /\ prev.records_failed = summary.records_failed
           /\ prev.success = summary.success

\* C10: process_file_sequential processes the batches one at a time in
\* reader order and its error list is the concatenation, in reader order,
\* of the per-batch messages (record messages in record order, then the
\* storage message).
C10_SequentialReaderOrder ==
    mode = "sequential"
        => /\ InReaderOrder(yielded)
           /\ pc \in {"loop", "done", "raised"} => Len(yielded) = next_batch - 1
           /\ all_errors = ConcatExpected(Len(yielded))
           /\ summary.status = "returned"
                 => (Len(yielded) = NBatches /\ summary.errors = ConcatExpected(NBatches))

C10_Witness ==
    /\ mode = "sequential"
    /\ summary.status = "returned"
    /\ NBatches >= 2
    /\ \E i, j \in DOMAIN summary.errors :
          i < j /\ summary.errors[i] = StorageMessage /\ summary.errors[j] # StorageMessage

\* C11: a second run over the same input against a working store, in the
\* same mode, leaves the same stored rows as the first run did and returns
\* the same records_processed and records_failed, also in parallel mode
\* and when an id occurs in more than one batch.
WorkingStore == \A b \in DOMAIN outcome : ~StoreFail(b) /\ ~Raised(b)

C11_RerunSameRowsAndCounts ==
    (/\ run = 2
     /\ prev.status = "returned"
     /\ summary.status = "returned"
     /\ prev.mode = mode
     /\ WorkingStore)
        => /\ store = prev.store
           /\ summary.records_processed = prev.records_processed
           /\ summary.records_failed = prev.records_failed

\* C12: in process_file_parallel all batches are submitted before any
\* result is collected, and at every moment at most max_workers of them
\* are being processed.
C12_AtMostMaxWorkersBusy ==
    /\ Cardinality(Busy) <= max_workers
    /\ pc = "collect" => DOMAIN fut = 1..NBatches

C12_Witness ==
    /\ pc = "collect"
    /\ max_workers >= 2
    /\ Cardinality(Busy) = max_workers
    /\ \E b \in DOMAIN fut : fut[b].st = "queued"

\* C13: main returns 0 exactly when the run completed with success true;
\* it returns 1 when a record failed and on every setup-time error.
InvalidSetting ==
    \/ env.db_url \in {"unset", ""}
    \/ batch_size <= 0
    \/ max_workers <= 0

SetupError ==
    \/ ~env.argv
    \/ ~env.exists
    \/ env.db_url \in {"unset", "", "garbage"}
    \/ InvalidSetting
    \/ env.bad_row > 0

C13_ExitCodeFollowsSuccess ==
    (entry = "main" /\ pc = "exited")
        => /\ exit_code \in {0, 1}
           /\ exit_code = 0 <=> (summary.status = "returned" /\ summary.success)
           /\ (summary.status = "returned" /\ summary.records_failed > 0) => exit_code = 1
           /\ SetupError => (exit_code = 1 /\ summary.status = "none")
           /\ ~SetupError => summary.status = "returned"

C13_Witness ==
    /\ entry = "main"
    /\ pc = "exited"
    /\ exit_code = 1
    /\ summary.status = "returned"
    /\ summary.records_processed > 0
    /\ summary.records_failed > 0

\* C14: with a missing or invalid setting (connection string unset or
\* empty, batch_size <= 0, max_workers <= 0) the run is rejected before any
\* I/O: no engine is created, no input is read, no record is stored.
C14_InvalidConfigRejected ==
    InvalidSetting
        => /\ engine = "none"
           /\ batches = << >>
           /\ store = {}
           /\ pc \in {"main", "new", "config_error", "exited"}
           /\ pc = "exited" => exit_code = 1

C14_Witness ==
    /\ entry = "api"
    /\ pc = "config_error"
    /\ env.db_url = "postgresql://db"
    /\ env.exists
    /\ batch_size > 0
    /\ max_workers <= 0
    /\ Len(file) > 0

\* C18: in both modes the reader is exhausted before the first batch is
\* dispatched, so a read failure (path not found, or a malformed row
\* anywhere in the file) is fatal with no batch processed and no record
\* stored.
C18_ReadFailureBeforeDispatch ==
    /\ pc \in {"loop", "submit", "collect", "done", "raised"}
          => batches = read_csv_batches(file, batch_size)
    /\ (~env.exists \/ env.bad_row > 0)
          => /\ pc \in {"main", "new", "start", "config_error", "read_error", "exited"}
             /\ batches = << >>
             /\ fut = << >>
             /\ yielded = << >>
             /\ sink_calls = << >>
             /\ store = {}
             /\ summary.status = "none"
             /\ exit_code \in {-1, 1}

C18_Witness ==
    /\ entry = "api"
    /\ pc = "read_error"
    /\ env.exists
    /\ batch_size >= 1
    /\ env.bad_row > batch_size
    /\ validate_record(file[1]) = "true"

\* C15: validate_record returns true exactly for the records that have the
\* fields id, name and value and a value that parses as a number; for
\* every other record it returns false, and it never raises.
NumericParsable(v) == v \in {"3.14", "2.5"}

C15_ValidateTotal ==
    ret.kind = "validated"
        => /\ ret.value \in {"true", "false"}
           /\ ret.value = "true"
                 <=> (/\ required_fields \subseteq DOMAIN arg.record
                      /\ NumericParsable(arg.record["value"]))

\* C16: read_csv_batches on n >= 1 records with batch size b yields the
\* records in input order, in batches of at least 1 and at most b records,
\* every batch but the last of exactly b; n = b gives one batch, n = b + 1
\* gives two, the second of one record.
RECURSIVE Flatten(_)
Flatten(bs) == IF bs = << >> THEN << >> ELSE Head(bs) \o Flatten(Tail(bs))

RECURSIVE TransformedValid(_, _)
TransformedValid(b, i) ==
    IF i > Len(batches[b]) THEN << >>
    ELSE (IF i \in ValidPositions(b) THEN << process_record(batches[b][i]) >> ELSE << >>)
         \o TransformedValid(b, i + 1)

Completed(b) == outcome[b].raised = "no"

C17_SinkCalledOnceWithValid ==
    \A b \in DOMAIN sink_calls :
        /\ Len(sink_calls[b]) <= 1
        /\ Len(sink_calls[b]) = 1
              => /\ Completed(b)
                 /\ ValidCount(b) > 0
                 /\ sink_calls[b][1] = TransformedValid(b, 1)
                 /\ Len(sink_calls[b][1]) = ValidCount(b)
        /\ (Completed(b) /\ ValidCount(b) > 0) => Len(sink_calls[b]) = 1

C17_Witness ==
    \E b \in DOMAIN sink_calls :
        /\ Len(sink_calls[b]) = 1
        /\ InvalidCount(b) > 0
        /\ summary.status = "returned"

\* C19: in process_file_parallel under fair scheduling every submitted batch
\* finishes, every finished batch is merged, the count of completed batches
\* only grows, one at a time, up to the number of batches, and the run
\* returns its summary.
C19_ParallelRunReturns ==
    /\ \A b \in 1..MaxRecords :
          /\ (b \in DOMAIN fut) ~> (b \in DOMAIN fut /\ fut[b].st = "finished")
          /\ (b \in DOMAIN fut /\ fut[b].st = "finished") ~> (b \in Range(yielded))
    /\ [][/\ Len(yielded') \in {Len(yielded), Len(yielded) + 1}
          /\ Len(yielded') <= Len(batches')]_vars
    /\ (mode = "parallel" /\ pc = "start")
          ~> (summary.status = "returned" /\ Len(yielded) = NBatches)

C19_Witness ==
    /\ mode = "parallel"
    /\ summary.status = "returned"
    /\ NBatches >= 2
    /\ Len(yielded) = NBatches
    /\ \E b \in DOMAIN fut : fut[b].res.kind = "exception"
====
